---- MODULE Spec2Model ----
(***************************************************************************)
(* Configuration-commitment engine of a channel                            *)
(* (platform/fabric/core/generic/txconfig.go): ReloadConfigTransactions,   *)
(* CommitConfig, commitConfig, applyBundle, Resources and                  *)
(* capabilitiesSupported, run by concurrent goroutines over a vault, a     *)
(* channelconfig bundle builder and the network layer's orderer list.      *)
(***************************************************************************)
EXTENDS Integers, Sequences, FiniteSets, TLC

\* ------------------------------------------------------------------ bounds

\* Highest sequence number a delivered configuration carries.
MaxSeq == 2

\* ------------------------------------------------- constants of the program

channelConfigKey == "CHANNEL_CONFIG_ENV_BYTES"

peerNamespace == "_configtx"

\* committer.ConfigTXPrefix
ConfigTXPrefix == "config-"

\* ConnectionTimeout: 10 * time.Second
ConnectionTimeoutSeconds == 10

\* driver.ValidationCode values the code switches on; Invalid stands for
\* every code other than Valid and Unknown.
Valid == "Valid"

Unknown == "Unknown"

Invalid == "Invalid"

\* ------------------------------------------------------- processes, inputs

Channels == {"ch1"}

Workers == {"w1", "w2"}

Readers == {"r1"}

Seqs == 1..MaxSeq

\* The block numbers a caller supplies to CommitConfig.
BlockNumbers == {1, 2}

\* A nil pointer / absent value is the empty tuple, a present one <<v>>.
Nil == <<>>

Some(v) == <<v>>

\* strconv.FormatUint(n, 10): the decimal digits of n, most significant first.
RECURSIVE FormatUint(_)
FormatUint(n) == IF n < 10 THEN <<n>> ELSE Append(FormatUint(n \div 10), n % 10)

\* txID := committer.ConfigTXPrefix + strconv.FormatUint(sequence, 10)
ConfigTxID(sequence) == <<ConfigTXPrefix>> \o FormatUint(sequence)

\* rwset.CreateCompositeKey(channelConfigKey, []string{FormatUint(seq)})
CompositeKey(seq) == <<channelConfigKey>> \o FormatUint(seq)

\* The ordering organization a configuration at sequence s declares: one
\* organization, two endpoints, one TLS root certificate and one TLS
\* intermediate certificate.
OrdererOrg(s) ==
    [name |-> "OrdererOrg", mspid |-> "OrdererMSP",
     endpoints |-> << <<"orderer", s, 1>>, <<"orderer", s, 2>> >>,
     tlsRoot |-> << <<"tlsroot", s>> >>,
     tlsIntermediate |-> << <<"tlsintermediate", s>> >>]

\* The well-formed configuration at sequence s.
GoodConfig(s) ==
    [Sequence |-> s, variant |-> "good", policyOK |-> TRUE, buildable |-> TRUE,
     hasApp |-> TRUE, appCapsOK |-> TRUE, chanCapsOK |-> TRUE,
     hasOrderer |-> TRUE, orgs |-> << OrdererOrg(s) >>]

Variants == {"good", "noord", "noep", "badsig", "nobuild", "noapp", "appcap", "chancap"}

\* The configurations a block may deliver: the good one, and ones that differ
\* from it in one respect (no ordering section, an update the current policies
\* reject, data no bundle can be built from, no application section, an
\* unsupported application or channel capability, an ordering organization
\* with no endpoint).
Cfg(s, v) ==
    CASE v = "good" -> GoodConfig(s)
      [] v = "noord" -> [GoodConfig(s) EXCEPT !.variant = v, !.hasOrderer = FALSE, !.orgs = << >>]
      [] v = "noep" -> [GoodConfig(s) EXCEPT !.variant = v,
                            !.orgs = << [OrdererOrg(s) EXCEPT !.endpoints = << >>] >>]
      [] v = "badsig" -> [GoodConfig(s) EXCEPT !.variant = v, !.policyOK = FALSE]
      [] v = "nobuild" -> [GoodConfig(s) EXCEPT !.variant = v, !.buildable = FALSE]
      [] v = "noapp" -> [GoodConfig(s) EXCEPT !.variant = v, !.hasApp = FALSE]
      [] v = "appcap" -> [GoodConfig(s) EXCEPT !.variant = v, !.appCapsOK = FALSE]
      [] v = "chancap" -> [GoodConfig(s) EXCEPT !.variant = v, !.chanCapsOK = FALSE]

ConfigSet == {Cfg(s, v) : s \in Seqs, v \in Variants}

NoConfig == [GoodConfig(0) EXCEPT !.variant = "none"]

\* Serialized envelopes (block.Data.Data[i]): a well-formed envelope of a
\* configuration, an envelope whose payload does not parse, and one whose
\* payload data is no configuration envelope.
MarshalEnvelope(cfg) == [payload |-> "ok", data |-> "ok", config |-> cfg]

BadPayloadRaw == [payload |-> "junk", data |-> "junk", config |-> NoConfig]

BadConfigEnvRaw == [payload |-> "ok", data |-> "junk", config |-> NoConfig]

RawSet == {MarshalEnvelope(cfg) : cfg \in ConfigSet} \cup {BadPayloadRaw, BadConfigEnvRaw}

\* protoutil.UnmarshalEnvelope: the envelope carries the payload bytes.
UnmarshalEnvelope(raw) == [err |-> FALSE, env |-> [Payload |-> raw]]

\* protoutil.UnmarshalPayload(env.Payload)
UnmarshalPayload(bytes) ==
    IF bytes.payload = "ok"
    THEN [err |-> FALSE, payload |-> [Data |-> [data |-> bytes.data, config |-> bytes.config]]]
    ELSE [err |-> TRUE, payload |-> [Data |-> [data |-> "junk", config |-> NoConfig]]]

\* configtx.UnmarshalConfigEnvelope(payload.Data)
UnmarshalConfigEnvelope(bytes) ==
    IF bytes.data = "ok"
    THEN [err |-> FALSE, ctx |-> [Config |-> bytes.config]]
    ELSE [err |-> TRUE, ctx |-> [Config |-> NoConfig]]

\* What the block-delivery path hands to CommitConfig: the raw bytes and the
\* envelope decoded from them, or a nil envelope.
CommitInputs ==
    {[raw |-> r, env |-> Some(UnmarshalEnvelope(r).env)] : r \in RawSet}
        \cup {[raw |-> BadPayloadRaw, env |-> Nil]}

\* ------------------------------------------------------------------ bundles

\* channelconfig.NewBundle(channelID, config, bccsp): a bundle, or an error.
\* gen tells apart the objects built in one process: the builder runs under
\* the apply lock, so it is one more than the active bundle's.
NewBundle(channelID, config, gen) ==
    IF config.buildable
    THEN [err |-> FALSE,
          bundle |-> Some([channelID |-> channelID, config |-> config,
                           built |-> TRUE, gen |-> gen])]
    ELSE [err |-> TRUE, bundle |-> Nil]

\* bundle.ConfigtxValidator(): the validator of an active bundle.
ConfigtxValidator(bundle) ==
    [channelID |-> bundle.channelID, sequence |-> bundle.config.Sequence]

\* configTxValidator.Validate(ctx) of fabric's configtx.ValidatorImpl: the
\* configuration must carry the sequence after the validator's and its update
\* must satisfy the current policies.
Validate(validator, ctx) ==
    /\ ctx.Config.Sequence = validator.sequence + 1
    /\ ctx.Config.policyOK

\* capabilitiesSupported(res): "" or the error.
capabilitiesSupported(res) ==
    IF ~res.config.hasApp THEN "no application config"
    ELSE IF ~res.config.appCapsOK THEN "application capabilities incompatible"
    ELSE IF ~res.config.chanCapsOK THEN "channel capabilities incompatible"
    ELSE ""

\* The list applyBundle builds from the bundle's ordering configuration: one
\* grpc.ConnectionConfig per (organization, endpoint).
RECURSIVE OrgEndpoints(_, _)
OrgEndpoints(org, i) ==
    IF i > Len(org.endpoints) THEN << >>
    ELSE << [Address |-> org.endpoints[i],
             ConnectionTimeout |-> ConnectionTimeoutSeconds,
             TLSEnabled |-> TRUE,
             TLSRootCertBytes |-> org.tlsRoot \o org.tlsIntermediate] >>
         \o OrgEndpoints(org, i + 1)

RECURSIVE NewOrderers(_, _)
NewOrderers(orgs, i) ==
    IF i > Len(orgs) THEN << >>
    ELSE OrgEndpoints(orgs[i], 1) \o NewOrderers(orgs, i + 1)

\* -------------------------------------------------------------------- state

VARIABLES
    vaultValid,         \* per channel: the transaction ids with status Valid (durable)
    vaultInvalid,       \* per channel: the transaction ids with a status other than Valid, Unknown (durable)
    vaultState,         \* per channel: the committed (key, value) entries of peerNamespace (durable)
    vaultOpen,          \* per channel: the transaction ids with an open read/write set
    resources,          \* per channel: c.resources, Nil or the active bundle
    applyLock,          \* per channel: the worker holding c.applyLock, or ""
    lock,               \* per channel: c.lock, its writer (or "") and its readers
    commitConfigMutex,  \* the worker holding commitConfigMutex, or ""
    configOrderers,     \* the list last given to c.network.setConfigOrderers
    phase,              \* per channel: boot, reloading, live or failed
    w,                  \* per worker: the call it runs and its local variables
    rd,                 \* per reader: its Resources() call and the value it last got
    applied,            \* per channel: the bundles passed to applyBundle since the process started
    crashWin            \* per channel: the configuration persisted but not activated when the process crashed

vars == <<vaultValid, vaultInvalid, vaultState, vaultOpen, resources, applyLock, lock,
          commitConfigMutex, configOrderers, phase, w, rd, applied, crashWin>>

vaultVars == <<vaultValid, vaultInvalid, vaultState, vaultOpen>>

lockVars == <<applyLock, lock, commitConfigMutex>>

\* A worker that runs no call.
IdleWorker ==
    [pc |-> "idle", op |-> "", chan |-> "", blockNumber |-> 0, raw |-> BadPayloadRaw,
     env |-> Nil, ctx |-> Nil, txid |-> << >>, vc |-> "", sequence |-> 0,
     res1 |-> Nil, res2 |-> Nil,
     bundle |-> Nil, rws |-> Nil, err |-> "", log |-> << >>, res0 |-> Nil, qe |-> FALSE,
     boot |-> FALSE, loaded |-> << >>, ord0 |-> << >>, vault0 |-> Nil]

IdleReader == [pc |-> "idle", got |-> Nil, seen |-> Nil, chan |-> ""]

Init ==
    /\ vaultValid = [c \in Channels |-> {}]
    /\ vaultInvalid = [c \in Channels |-> {}]
    /\ vaultState = [c \in Channels |-> {}]
    /\ vaultOpen = [c \in Channels |-> {}]
    /\ resources = [c \in Channels |-> Nil]
    /\ applyLock = [c \in Channels |-> ""]
    /\ lock = [c \in Channels |-> [writer |-> "", readers |-> {}]]
    /\ commitConfigMutex = ""
    /\ configOrderers = << >>
    /\ phase = [c \in Channels |-> "boot"]
    /\ w = [t \in Workers |-> IdleWorker]
    /\ rd = [r \in Readers |-> IdleReader]
    /\ applied = [c \in Channels |-> {}]
    /\ crashWin = [c \in Channels |-> Nil]

\* -------------------------------------------------------------------- vault

\* vault.Status(txID) when the call itself succeeds.
Status(c, txid) ==
    IF txid \in vaultValid[c] THEN Valid
    ELSE IF txid \in vaultInvalid[c] THEN Invalid
    ELSE Unknown

\* qe.GetState(peerNamespace, key): the committed value, Nil when there is none.
GetState(c, key) ==
    IF \E e \in vaultState[c] : e.key = key
    THEN Some((CHOOSE e \in vaultState[c] : e.key = key).val)
    ELSE Nil

\* vault.NewRWSet(txid): the vault holds an open read/write set for txid; the
\* caller gets the set, with no writes.
NewRWSet(c, txid) == vaultOpen' = [vaultOpen EXCEPT ![c] = @ \cup {txid}]

\* rws.SetState(peerNamespace, key, value): the set with the write added.
SetState(rws, key, val) ==
    [rws EXCEPT !.writes = {x \in @ : x.key # key} \cup {[key |-> key, val |-> val]}]

\* c.CommitTX(txid, blockNumber, 0, nil) succeeding: the writes of the open
\* set become committed entries and the transaction Valid, in one step.
CommitTX(c, txid, writes) ==
    /\ vaultState' = [vaultState EXCEPT ![c] =
          {e \in @ : \A x \in writes : x.key # e.key} \cup writes]
    /\ vaultValid' = [vaultValid EXCEPT ![c] = @ \cup {txid}]
    /\ vaultOpen' = [vaultOpen EXCEPT ![c] = @ \ {txid}]
    /\ UNCHANGED vaultInvalid

\* c.DiscardTx(txid) succeeding: the pending writes are dropped; the vault may
\* or may not mark the transaction with a status of its own.
DiscardTx(c, txid, mark) ==
    /\ vaultOpen' = [vaultOpen EXCEPT ![c] = @ \ {txid}]
    /\ vaultInvalid' = [vaultInvalid EXCEPT ![c] = IF mark THEN @ \cup {txid} ELSE @]
    /\ UNCHANGED <<vaultValid, vaultState>>

\* The vault of channel c: its statuses, committed entries and open sets.
VaultOf(c) == <<vaultValid[c], vaultInvalid[c], vaultState[c], vaultOpen[c]>>

\* ------------------------------------------------------------------- locks

\* sync.Mutex.Lock on commitConfigMutex can return.
MutexFree == commitConfigMutex = ""

\* sync.Mutex.Lock on c.applyLock can return.
ApplyLockFree(c) == applyLock[c] = ""

\* sync.RWMutex.RLock on c.lock can return.
CanRLock(c) == lock[c].writer = ""

\* sync.RWMutex.Lock on c.lock can return.
CanLock(c) == lock[c].writer = "" /\ lock[c].readers = {}

\* ReloadMayEnter with the c.applyLock.Lock() of line 35 left out.
ReloadMayEnterNoLock(c) == TRUE

\* ReaderMayRead with the c.lock.RLock() of line 200 left out.
ReaderMayReadNoLock(c) == TRUE

\* ReloadConfigTransactions line 35: the reload enters when it has c.applyLock.
ReloadMayEnter(c) == ApplyLockFree(c)

\* Resources() line 200: the read happens when c.lock is read-locked.
ReaderMayRead(c) == CanRLock(c)

\* Resources() line 201, read while c.lock is honoured: res := c.resources.
Resources(c) == resources[c]

\* A value no builder returned: what a read racing with the write of
\* c.resources may yield.
TornBundle == Some([channelID |-> "", config |-> NoConfig, built |-> FALSE, gen |-> 0])

\* Resources() line 201: res := c.resources. A read concurrent with the write
\* of line 233 is a data race; it may yield the old value, the new one or
\* neither.
ReadOutcomes(c) ==
    IF \E t \in Workers : w[t].pc = "ab_set" /\ w[t].chan = c
    THEN {Resources(c), TornBundle} \cup {w[t].bundle : t \in {x \in Workers : w[x].pc = "ab_set" /\ w[x].chan = c}}
    ELSE {Resources(c)}

\* ------------------------------------------------- building the next bundle

\* BuildBundle with the successor branch not calling the active bundle's
\* validator.
BuildBundleNoValidate(name, res1, res2, ctx) ==
    LET gen == IF res1 = Nil THEN 1 ELSE res2[1].gen + 1 IN
    IF res1 = Nil
    THEN LET nb == NewBundle(name, ctx.Config, gen) IN
         [err |-> IF nb.err THEN "failed to build a new bundle" ELSE "",
          bundle |-> nb.bundle, calls |-> <<"NewBundle">>]
    ELSE LET nb == NewBundle(ConfigtxValidator(res2[1]).channelID, ctx.Config, gen) IN
         IF nb.err
         THEN [err |-> "failed to create next bundle", bundle |-> Nil,
               calls |-> <<"NewBundle">>]
         ELSE [err |-> capabilitiesSupported(nb.bundle[1]), bundle |-> nb.bundle,
               calls |-> <<"NewBundle", "capabilitiesSupported">>]

\* CommitConfig lines 164-187, ReloadConfigTransactions lines 78-101, given
\* what the two Resources() calls returned: res1 at line 165 (79), res2 at
\* line 172 (86), which is made only when res1 is not nil. The genesis path
\* when res1 is nil, else validation by the validator of res2, the build and
\* the capability check. None of it runs under c.lock. bundle is the local
\* variable as the code leaves it, err the error returned ("" for none).
BuildBundle(name, res1, res2, ctx) ==
    LET gen == IF res1 = Nil THEN 1 ELSE res2[1].gen + 1 IN
    IF res1 = Nil
    THEN LET nb == NewBundle(name, ctx.Config, gen) IN
         [err |-> IF nb.err THEN "failed to build a new bundle" ELSE "",
          bundle |-> nb.bundle, calls |-> <<"NewBundle">>]
    ELSE LET configTxValidator == ConfigtxValidator(res2[1]) IN
         IF ~Validate(configTxValidator, ctx)
         THEN [err |-> "failed to validate config transaction", bundle |-> Nil,
               calls |-> <<"Validate">>]
         ELSE LET nb == NewBundle(configTxValidator.channelID, ctx.Config, gen) IN
              IF nb.err
              THEN [err |-> "failed to create next bundle", bundle |-> Nil,
                    calls |-> <<"Validate", "NewBundle">>]
              ELSE [err |-> capabilitiesSupported(nb.bundle[1]), bundle |-> nb.bundle,
                    calls |-> <<"Validate", "NewBundle", "capabilitiesSupported">>]

\* ReturnPc with the reload's deferred qe.Done() left out.
ReturnPcSkipsDone(op) == IF op = "commit" THEN "cc_unlockApply" ELSE "rl_unlockApply"

\* ReturnPc with CommitConfig's deferred c.applyLock.Unlock() left out.
ReturnPcKeepsApplyLock(op) == IF op = "commit" THEN "cc_unlockMutex" ELSE "rl_done"

\* Where a call goes when it returns: it runs its deferred calls.
ReturnPc(op) == IF op = "commit" THEN "cc_unlockApply" ELSE "rl_done"

\* AfterBuild with CommitConfig's call of commitConfig left out.
AfterBuildSkipPersist(op, err) ==
    IF err # "" THEN ReturnPc(op) ELSE "ab_lock"

\* AfterBuild with applyBundle called before the capability check's error is
\* looked at.
AfterBuildApplyFirst(op, err) ==
    IF err \in {"no application config", "application capabilities incompatible",
                "channel capabilities incompatible"} THEN "ab_lock"
    ELSE IF err # "" THEN ReturnPc(op)
    ELSE IF op = "commit" THEN "cc_newrws" ELSE "ab_lock"

\* Where a call goes after the build: out with the error, or on to
\* commitConfig (CommitConfig line 189) or to applyBundle (reload line 103).
AfterBuild(op, err) ==
    IF err # "" THEN ReturnPc(op)
    ELSE IF op = "commit" THEN "cc_newrws" ELSE "ab_lock"

\* CommitStatusSwitch with the Valid case falling through like Unknown.
CommitStatusSwitchNoValid(vc) ==
    CASE vc \in {Valid, Unknown} -> [pc |-> "cc_rlock1", err |-> ""]
      [] OTHER -> [pc |-> ReturnPc("commit"), err |-> "invalid configtx's status"]

\* CommitConfig lines 155-162: the switch on the status of txid.
CommitStatusSwitch(vc) ==
    CASE vc = Valid -> [pc |-> ReturnPc("commit"), err |-> ""]
      [] vc = Unknown -> [pc |-> "cc_rlock1", err |-> ""]
      [] OTHER -> [pc |-> ReturnPc("commit"), err |-> "invalid configtx's status"]

\* commitConfig lines 221-226: where a failed CommitTX leads.
AfterCommitTXFailed == "cc_discard"

\* ------------------------------------- Resources() called by a worker

\* The worker is about to make the Resources() call of line 165 (79), or the
\* one of line 172 (86).
FirstCall == {"cc_rlock1", "rl_rlock1"}
SecondCall == {"cc_rlock2", "rl_rlock2"}

\* The worker is inside that call, holding the read lock.
InFirstCall == {"cc_runlock1", "rl_runlock1"}
InSecondCall == {"cc_runlock2", "rl_runlock2"}

\* The call's position once RLock has returned and the field is read.
AfterRLock(pc) ==
    CASE pc = "cc_rlock1" -> "cc_runlock1"
      [] pc = "cc_rlock2" -> "cc_runlock2"
      [] pc = "rl_rlock1" -> "rl_runlock1"
      [] pc = "rl_rlock2" -> "rl_runlock2"

\* Lines 165-172 (79-86): where the caller goes with what Resources()
\* returned. nil at line 165 leads to the genesis branch, anything else to the
\* second call at line 172; after that one, the validation.
AfterResources(pc, res) ==
    CASE pc = "cc_runlock1" -> (IF res = Nil THEN "cc_build" ELSE "cc_rlock2")
      [] pc = "rl_runlock1" -> (IF res = Nil THEN "rl_build" ELSE "rl_rlock2")
      [] pc = "cc_runlock2" -> "cc_build"
      [] pc = "rl_runlock2" -> "rl_build"

\* Resources() lines 200-201 called from line 165, 172, 79 or 86:
\* c.lock.RLock() returning, the read.
WR_RLock(t) ==
    /\ w[t].pc \in FirstCall \cup SecondCall
    /\ CanRLock(w[t].chan)
    /\ lock' = [lock EXCEPT ![w[t].chan].readers = @ \cup {t}]
    /\ \E res \in ReadOutcomes(w[t].chan) :
          w' = [w EXCEPT ![t] =
                  IF w[t].pc \in FirstCall
                  THEN [@ EXCEPT !.pc = AfterRLock(w[t].pc), !.res1 = res]
                  ELSE [@ EXCEPT !.pc = AfterRLock(w[t].pc), !.res2 = res]]
    /\ UNCHANGED <<vaultVars, resources, applyLock, commitConfigMutex, configOrderers,
                   phase, rd, applied, crashWin>>

\* Resources() lines 202-203: c.lock.RUnlock() and the return of res to the
\* caller, which goes on without c.lock.
WR_RUnlock(t) ==
    /\ w[t].pc \in InFirstCall \cup InSecondCall
    /\ lock' = [lock EXCEPT ![w[t].chan].readers = @ \ {t}]
    /\ w' = [w EXCEPT ![t].pc =
                AfterResources(w[t].pc, IF w[t].pc \in InFirstCall THEN w[t].res1 ELSE w[t].res2)]
    /\ UNCHANGED <<vaultVars, resources, applyLock, commitConfigMutex, configOrderers,
                   phase, rd, applied, crashWin>>

\* ---------------------------------------------------------- CommitConfig

\* CommitConfig line 128: the call, and commitConfigMutex.Lock() returning.
\* The arguments are first read at line 134; their values are fixed there.
CC_Call(t, c) ==
    /\ w[t].pc = "idle"
    /\ phase[c] = "live"
    /\ MutexFree
    /\ commitConfigMutex' = t
    /\ w' = [w EXCEPT ![t] = [IdleWorker EXCEPT !.pc = "cc_applyLock", !.op = "commit",
                !.chan = c]]
    /\ UNCHANGED <<vaultVars, resources, applyLock, lock, configOrderers, phase, rd,
                   applied, crashWin>>

\* line 131: c.applyLock.Lock() returning.
CC_ApplyLock(t) ==
    /\ w[t].pc = "cc_applyLock"
    /\ ApplyLockFree(w[t].chan)
    /\ applyLock' = [applyLock EXCEPT ![w[t].chan] = t]
    /\ w' = [w EXCEPT ![t].pc = "cc_decode", ![t].res0 = resources[w[t].chan],
                      ![t].ord0 = configOrderers, ![t].vault0 = Some(VaultOf(w[t].chan))]
    /\ UNCHANGED <<vaultVars, resources, lock, commitConfigMutex, configOrderers, phase,
                   rd, applied, crashWin>>

\* lines 134-150: the arguments, the nil check, the two decodings and the
\* transaction id.
CC_Decode(t, blockNumber, in) ==
    /\ w[t].pc = "cc_decode"
    /\ LET me == [w[t] EXCEPT !.blockNumber = blockNumber, !.raw = in.raw, !.env = in.env]
           pl == UnmarshalPayload(me.env[1].Payload)
           ce == UnmarshalConfigEnvelope(pl.payload.Data)
       IN  w' = [w EXCEPT ![t] =
                IF me.env = Nil
                THEN [me EXCEPT !.pc = ReturnPc("commit"), !.err = "channel config found nil"]
                ELSE IF pl.err
                THEN [me EXCEPT !.pc = ReturnPc("commit"), !.err = "cannot get payload"]
                ELSE IF ce.err
                THEN [me EXCEPT !.pc = ReturnPc("commit"), !.err = "error unmarshalling config"]
                ELSE [me EXCEPT !.pc = "cc_status", !.ctx = Some(ce.ctx),
                                !.txid = ConfigTxID(ce.ctx.Config.Sequence)]]
    /\ UNCHANGED <<vaultVars, resources, lockVars, configOrderers, phase, rd, applied, crashWin>>

\* lines 151-162: c.vault.Status(txid) and the switch on its result.
CC_Status(t) ==
    /\ w[t].pc = "cc_status"
    /\ \E fails \in BOOLEAN :
          LET me == w[t]
              vc == Status(me.chan, me.txid)
              to == CommitStatusSwitch(vc)
          IN  w' = [w EXCEPT ![t] =
                   IF fails
                   THEN [me EXCEPT !.pc = ReturnPc("commit"), !.err = "failed getting tx's status",
                                   !.log = Append(@, "Status")]
                   ELSE [me EXCEPT !.pc = to.pc, !.err = to.err, !.vc = vc,
                                   !.log = Append(@, "Status")]]
    /\ UNCHANGED <<vaultVars, resources, lockVars, configOrderers, phase, rd, applied, crashWin>>

\* lines 166-187, after the Resources() calls of lines 165 and 172 have
\* returned: the bundle for the configuration, built without c.lock.
CC_Build(t) ==
    /\ w[t].pc = "cc_build"
    /\ LET me == w[t]
           b == BuildBundle(me.chan, me.res1, me.res2, me.ctx[1])
       IN  w' = [w EXCEPT ![t] = [me EXCEPT !.pc = AfterBuild("commit", b.err), !.err = b.err,
                                            !.bundle = b.bundle, !.log = @ \o b.calls,
                                            !.res1 = Nil, !.res2 = Nil]]
    /\ UNCHANGED <<vaultVars, resources, lockVars, configOrderers, phase, rd, applied, crashWin>>

\* commitConfig lines 207-211: c.vault.NewRWSet(txid).
CC_NewRWSet(t) ==
    /\ w[t].pc = "cc_newrws"
    /\ \E fails \in BOOLEAN :
          IF fails
          THEN /\ w' = [w EXCEPT ![t].pc = ReturnPc("commit"),
                                 ![t].err = "cannot create rws for configtx",
                                 ![t].log = Append(@, "NewRWSet")]
               /\ UNCHANGED vaultVars
          ELSE /\ NewRWSet(w[t].chan, w[t].txid)
               /\ w' = [w EXCEPT ![t].pc = "cc_setstate", ![t].log = Append(@, "NewRWSet"),
                                 ![t].rws = Some([txid |-> w[t].txid, writes |-> {}])]
               /\ UNCHANGED <<vaultValid, vaultInvalid, vaultState>>
    /\ UNCHANGED <<resources, lockVars, configOrderers, phase, rd, applied, crashWin>>

\* commitConfig lines 213-220: the key, rws.SetState and rws.Done(); on an
\* error the deferred rws.Done() runs.
CC_SetState(t) ==
    /\ w[t].pc = "cc_setstate"
    /\ \E fails \in BOOLEAN :
          w' = [w EXCEPT ![t] =
                  IF fails
                  THEN [@ EXCEPT !.pc = ReturnPc("commit"),
                                 !.err = "failed setting configtx state in rws",
                                 !.log = @ \o <<"SetState failed", "rws.Done">>]
                  ELSE [@ EXCEPT !.pc = "cc_committx",
                                 !.rws = Some(SetState(w[t].rws[1],
                                     CompositeKey(w[t].ctx[1].Config.Sequence), w[t].raw)),
                                 !.log = @ \o <<"SetState", "rws.Done">>]]
    /\ UNCHANGED <<vaultVars, resources, lockVars, configOrderers, phase, rd, applied, crashWin>>

\* commitConfig line 221: c.CommitTX(txid, blockNumber, 0, nil); on success
\* the deferred rws.Done() runs and CommitConfig goes on to applyBundle.
CC_CommitTX(t) ==
    /\ w[t].pc = "cc_committx"
    /\ \E fails \in BOOLEAN :
          IF fails
          THEN /\ w' = [w EXCEPT ![t].pc = AfterCommitTXFailed,
                                 ![t].err = "failed committing configtx rws",
                                 ![t].log = Append(@, "CommitTX failed")]
               /\ UNCHANGED vaultVars
          ELSE /\ CommitTX(w[t].chan, w[t].txid, w[t].rws[1].writes)
               /\ w' = [w EXCEPT ![t].pc = "ab_lock",
                                 ![t].log = @ \o <<"CommitTX", "rws.Done">>]
    /\ UNCHANGED <<resources, lockVars, configOrderers, phase, rd, applied, crashWin>>

\* commitConfig lines 222-225: c.DiscardTx(txid), its error only logged; the
\* deferred rws.Done() runs and the CommitTX error is returned.
CC_DiscardTx(t) ==
    /\ w[t].pc = "cc_discard"
    /\ \E fails \in BOOLEAN, mark \in BOOLEAN :
          IF fails
          THEN /\ ~mark
               /\ w' = [w EXCEPT ![t].pc = ReturnPc("commit"),
                                 ![t].log = @ \o <<"DiscardTx failed", "rws.Done">>]
               /\ UNCHANGED vaultVars
          ELSE /\ DiscardTx(w[t].chan, w[t].txid, mark)
               /\ w' = [w EXCEPT ![t].pc = ReturnPc("commit"),
                                 ![t].log = @ \o <<"DiscardTx", "rws.Done">>]
    /\ UNCHANGED <<resources, lockVars, configOrderers, phase, rd, applied, crashWin>>

\* CC_UnlockApply with the deferred c.applyLock.Unlock() of line 132 left out.
CC_UnlockApplyKeepsLock(t) ==
    /\ w[t].pc = "cc_unlockApply"
    /\ w' = [w EXCEPT ![t] = [IdleWorker EXCEPT !.pc = "cc_unlockMutex", !.op = "commit",
                                             !.chan = w[t].chan, !.err = w[t].err]]
    /\ UNCHANGED <<vaultVars, resources, lockVars, configOrderers, phase, rd, applied, crashWin>>

\* line 132, deferred: c.applyLock.Unlock().
CC_UnlockApply(t) ==
    /\ w[t].pc = "cc_unlockApply"
    /\ applyLock' = [applyLock EXCEPT ![w[t].chan] = ""]
    /\ w' = [w EXCEPT ![t] = [IdleWorker EXCEPT !.pc = "cc_unlockMutex", !.op = "commit",
                                             !.chan = w[t].chan, !.err = w[t].err]]
    /\ UNCHANGED <<vaultVars, resources, lock, commitConfigMutex, configOrderers, phase,
                   rd, applied, crashWin>>

\* line 129, deferred: commitConfigMutex.Unlock(); CommitConfig has returned.
CC_UnlockMutex(t) ==
    /\ w[t].pc = "cc_unlockMutex"
    /\ commitConfigMutex' = ""
    /\ w' = [w EXCEPT ![t] = IdleWorker]
    /\ UNCHANGED <<vaultVars, resources, applyLock, lock, configOrderers, phase, rd,
                   applied, crashWin>>

\* ------------------------------------------------------------ applyBundle

\* Where a call goes when applyBundle has returned: CommitConfig returns nil
\* (line 195), the reload loop takes the next sequence (lines 105-106).
AfterApply(op) == IF op = "commit" THEN "cc_unlockApply" ELSE "rl_status"

\* OrderersToPush with the len(newOrderers) != 0 test of line 257 left out.
OrderersToPushAlways(bundle) ==
    IF bundle.config.hasOrderer
    THEN Some(NewOrderers(bundle.config.orgs, 1))
    ELSE Nil

\* applyBundle lines 236-262: the list to push, Nil when there is no ordering
\* configuration or it has no endpoint.
OrderersToPush(bundle) ==
    IF bundle.config.hasOrderer /\ Len(NewOrderers(bundle.config.orgs, 1)) # 0
    THEN Some(NewOrderers(bundle.config.orgs, 1))
    ELSE Nil

\* applyBundle line 231: the call, and c.lock.Lock() returning.
AB_Lock(t) ==
    /\ w[t].pc = "ab_lock"
    /\ CanLock(w[t].chan)
    /\ lock' = [lock EXCEPT ![w[t].chan].writer = t]
    /\ applied' = [applied EXCEPT ![w[t].chan] = @ \cup {w[t].bundle}]
    /\ w' = [w EXCEPT ![t].pc = "ab_set", ![t].log = Append(@, "applyBundle"),
                      ![t].ord0 = configOrderers,
                      ![t].loaded = IF w[t].op = "reload" THEN Append(@, w[t].sequence) ELSE @]
    /\ UNCHANGED <<vaultVars, resources, applyLock, commitConfigMutex, configOrderers,
                   phase, rd, crashWin>>

\* line 233: c.resources = bundle.
AB_Set(t) ==
    /\ w[t].pc = "ab_set"
    /\ resources' = [resources EXCEPT ![w[t].chan] = w[t].bundle]
    /\ w' = [w EXCEPT ![t].pc = "ab_orderers"]
    /\ UNCHANGED <<vaultVars, lockVars, configOrderers, phase, rd, applied, crashWin>>

\* lines 236-265: the orderer list of the new bundle, pushed when not empty.
AB_Orderers(t) ==
    /\ w[t].pc = "ab_orderers"
    /\ LET push == OrderersToPush(resources[w[t].chan][1]) IN
          IF push # Nil
          THEN /\ configOrderers' = push[1]
               /\ w' = [w EXCEPT ![t].pc = "ab_unlock",
                                 ![t].log = Append(@, "setConfigOrderers")]
          ELSE /\ w' = [w EXCEPT ![t].pc = "ab_unlock"]
               /\ UNCHANGED configOrderers
    /\ UNCHANGED <<vaultVars, resources, lockVars, phase, rd, applied, crashWin>>

\* AB_Unlock with the deferred c.lock.Unlock() of line 232 left out.
AB_UnlockKeepsLock(t) ==
    /\ w[t].pc = "ab_unlock"
    /\ w' = [w EXCEPT ![t].pc = AfterApply(w[t].op),
                      ![t].sequence = IF w[t].op = "reload" THEN @ + 1 ELSE @]
    /\ UNCHANGED <<vaultVars, resources, lockVars, configOrderers, phase, rd, applied, crashWin>>

\* line 232, deferred: c.lock.Unlock(); applyBundle has returned.
AB_Unlock(t) ==
    /\ w[t].pc = "ab_unlock"
    /\ lock' = [lock EXCEPT ![w[t].chan].writer = ""]
    /\ w' = [w EXCEPT ![t].pc = AfterApply(w[t].op),
                      ![t].sequence = IF w[t].op = "reload" THEN @ + 1 ELSE @]
    /\ UNCHANGED <<vaultVars, resources, applyLock, commitConfigMutex, configOrderers,
                   phase, rd, applied, crashWin>>

\* ----------------------------------------------- ReloadConfigTransactions

\* ReloadStatusSwitch with Unknown read like Valid.
ReloadStatusSwitchUnknownReads(vc) ==
    CASE vc \in {Valid, Unknown} -> [pc |-> "rl_getstate", err |-> ""]
      [] OTHER -> [pc |-> ReturnPc("reload"), err |-> "invalid configtx's status"]

\* ReloadStatusSwitch with the default case ending the loop like Unknown.
ReloadStatusSwitchOtherDone(vc) ==
    CASE vc = Valid -> [pc |-> "rl_getstate", err |-> ""]
      [] OTHER -> [pc |-> ReturnPc("reload"), err |-> ""]

\* ReloadConfigTransactions lines 53-111: the switch on the status of txID.
ReloadStatusSwitch(vc) ==
    CASE vc = Valid -> [pc |-> "rl_getstate", err |-> ""]
      [] vc = Unknown -> [pc |-> ReturnPc("reload"), err |-> ""]
      [] OTHER -> [pc |-> ReturnPc("reload"), err |-> "invalid configtx's status"]

\* line 35: the call, and c.applyLock.Lock() returning. The first call after
\* the process starts is the channel's startup reload.
RL_Call(t, c) ==
    /\ w[t].pc = "idle"
    /\ phase[c] \in {"boot", "live"}
    /\ ReloadMayEnter(c)
    /\ applyLock' = [applyLock EXCEPT ![c] = t]
    /\ phase' = [phase EXCEPT ![c] = IF @ = "boot" THEN "reloading" ELSE @]
    /\ w' = [w EXCEPT ![t] = [IdleWorker EXCEPT !.pc = "rl_newqe", !.op = "reload",
                !.chan = c, !.res0 = resources[c], !.boot = (phase[c] = "boot"),
                !.ord0 = configOrderers]]
    /\ UNCHANGED <<vaultVars, resources, lock, commitConfigMutex, configOrderers, rd,
                   applied, crashWin>>

\* lines 38-45: c.vault.NewQueryExecutor(); sequence starts at 1.
RL_NewQueryExecutor(t) ==
    /\ w[t].pc = "rl_newqe"
    /\ \E fails \in BOOLEAN :
          w' = [w EXCEPT ![t] =
                  IF fails
                  THEN [@ EXCEPT !.pc = "rl_unlockApply", !.err = "failed getting query executor",
                                 !.log = Append(@, "NewQueryExecutor failed")]
                  ELSE [@ EXCEPT !.pc = "rl_status", !.qe = TRUE, !.sequence = 1,
                                 !.log = Append(@, "NewQueryExecutor")]]
    /\ UNCHANGED <<vaultVars, resources, lockVars, configOrderers, phase, rd, applied, crashWin>>

\* lines 47-53, 107-114: the transaction id of sequence, its status, the switch.
RL_Status(t) ==
    /\ w[t].pc = "rl_status"
    /\ \E fails \in BOOLEAN :
          LET me == w[t]
              txID == ConfigTxID(me.sequence)
              vc == Status(me.chan, txID)
              to == ReloadStatusSwitch(vc)
          IN  w' = [w EXCEPT ![t] =
                   IF fails
                   THEN [me EXCEPT !.pc = ReturnPc("reload"), !.err = "failed getting tx's status",
                                   !.txid = txID, !.log = Append(@, "Status")]
                   ELSE [me EXCEPT !.pc = to.pc, !.err = to.err, !.vc = vc, !.txid = txID,
                                   !.log = Append(@, "Status")]]
    /\ UNCHANGED <<vaultVars, resources, lockVars, configOrderers, phase, rd, applied, crashWin>>

\* lines 57-76: the key, qe.GetState and the three decodings of the entry.
RL_GetState(t) ==
    /\ w[t].pc = "rl_getstate"
    /\ \E fails \in BOOLEAN :
          LET me == w[t]
              envelope == GetState(me.chan, CompositeKey(me.sequence))
              env == UnmarshalEnvelope(envelope[1])
              pl == UnmarshalPayload(env.env.Payload)
              ce == UnmarshalConfigEnvelope(pl.payload.Data)
          IN  w' = [w EXCEPT ![t] =
                   IF fails
                   THEN [me EXCEPT !.pc = ReturnPc("reload"), !.log = Append(@, "GetState"),
                                   !.err = "failed setting configtx state in rws"]
                   ELSE IF envelope = Nil \/ env.err \/ pl.err
                   THEN [me EXCEPT !.pc = ReturnPc("reload"), !.log = Append(@, "GetState"),
                                   !.err = "cannot get payload from config transaction"]
                   ELSE IF ce.err
                   THEN [me EXCEPT !.pc = ReturnPc("reload"), !.log = Append(@, "GetState"),
                                   !.err = "error unmarshalling config"]
                   ELSE [me EXCEPT !.pc = "rl_rlock1", !.ctx = Some(ce.ctx), !.raw = envelope[1],
                                   !.log = Append(@, "GetState")]]
    /\ UNCHANGED <<vaultVars, resources, lockVars, configOrderers, phase, rd, applied, crashWin>>

\* lines 80-101, after the Resources() calls of lines 79 and 86 have
\* returned: the bundle for the entry, built without c.lock.
RL_Build(t) ==
    /\ w[t].pc = "rl_build"
    /\ LET me == w[t]
           b == BuildBundle(me.chan, me.res1, me.res2, me.ctx[1])
       IN  w' = [w EXCEPT ![t] = [me EXCEPT !.pc = AfterBuild("reload", b.err), !.err = b.err,
                                            !.bundle = b.bundle, !.log = @ \o b.calls,
                                            !.res1 = Nil, !.res2 = Nil]]
    /\ UNCHANGED <<vaultVars, resources, lockVars, configOrderers, phase, rd, applied, crashWin>>

\* RL_Done with a failed reload putting back the bundle that was active when
\* it was called.
RL_DoneRollsBack(t) ==
    /\ w[t].pc = "rl_done"
    /\ w' = [w EXCEPT ![t].pc = "rl_unlockApply", ![t].qe = FALSE,
                      ![t].log = Append(@, "qe.Done")]
    /\ resources' = [resources EXCEPT ![w[t].chan] = IF w[t].err # "" THEN w[t].res0 ELSE @]
    /\ UNCHANGED <<vaultVars, lockVars, configOrderers, phase, rd, applied, crashWin>>

\* line 42, deferred: qe.Done().
RL_Done(t) ==
    /\ w[t].pc = "rl_done"
    /\ w' = [w EXCEPT ![t].pc = "rl_unlockApply", ![t].qe = FALSE,
                      ![t].log = Append(@, "qe.Done")]
    /\ UNCHANGED <<vaultVars, resources, lockVars, configOrderers, phase, rd, applied, crashWin>>

\* line 36, deferred: c.applyLock.Unlock(); ReloadConfigTransactions has
\* returned. A startup reload that failed is fatal to the channel's
\* initialization; one that succeeded opens live delivery.
RL_UnlockApply(t) ==
    /\ w[t].pc = "rl_unlockApply"
    /\ applyLock' = [applyLock EXCEPT ![w[t].chan] = ""]
    /\ w' = [w EXCEPT ![t] = IdleWorker]
    /\ phase' = [c \in Channels |->
          IF w[t].boot /\ w[t].chan = c
          THEN (IF w[t].err = "" THEN "live" ELSE "failed")
          ELSE phase[c]]
    /\ crashWin' = [c \in Channels |-> IF w[t].boot /\ w[t].chan = c THEN Nil ELSE crashWin[c]]
    /\ UNCHANGED <<vaultVars, resources, lock, commitConfigMutex, configOrderers, rd, applied>>

\* ------------------------------------------------------ callers and process

\* Resources() lines 200-201 by a reader: c.lock.RLock() returning, the read.
RD_RLock(r, c) ==
    /\ rd[r].pc = "idle"
    /\ ReaderMayRead(c)
    /\ lock' = [lock EXCEPT ![c].readers = @ \cup {r}]
    /\ \E res \in ReadOutcomes(c) :
          rd' = [rd EXCEPT ![r].pc = "reading", ![r].got = res, ![r].chan = c]
    /\ UNCHANGED <<vaultVars, resources, applyLock, commitConfigMutex, configOrderers,
                   phase, w, applied, crashWin>>

\* Resources() lines 202-203: c.lock.RUnlock() and the return of res.
RD_RUnlock(r) ==
    /\ rd[r].pc = "reading"
    /\ lock' = [lock EXCEPT ![rd[r].chan].readers = @ \ {r}]
    /\ rd' = [rd EXCEPT ![r] = [IdleReader EXCEPT !.seen = rd[r].got]]
    /\ UNCHANGED <<vaultVars, resources, applyLock, commitConfigMutex, configOrderers,
                   phase, w, applied, crashWin>>

\* The configuration a CommitConfig on c has persisted and not yet activated.
InWindow(c) ==
    {w[t].ctx[1].Config : t \in {x \in Workers :
        w[x].op = "commit" /\ w[x].chan = c /\ w[x].pc \in {"ab_lock", "ab_set"}}}

\* The process stops and starts again: the vault's committed state stays,
\* everything in memory is as after construction.
Crash ==
    /\ \E t \in Workers : w[t].pc # "idle"
    /\ vaultOpen' = [c \in Channels |-> {}]
    /\ resources' = [c \in Channels |-> Nil]
    /\ applyLock' = [c \in Channels |-> ""]
    /\ lock' = [c \in Channels |-> [writer |-> "", readers |-> {}]]
    /\ commitConfigMutex' = ""
    /\ configOrderers' = << >>
    /\ phase' = [c \in Channels |-> "boot"]
    /\ w' = [t \in Workers |-> IdleWorker]
    /\ rd' = [r \in Readers |-> IdleReader]
    /\ applied' = [c \in Channels |-> {}]
    /\ crashWin' = [c \in Channels |->
          IF InWindow(c) # {} THEN Some(CHOOSE cfg \in InWindow(c) : TRUE) ELSE crashWin[c]]
    /\ UNCHANGED <<vaultValid, vaultInvalid, vaultState>>

Next ==
    \/ \E t \in Workers, c \in Channels : CC_Call(t, c)
    \/ \E t \in Workers : CC_ApplyLock(t)
    \/ \E t \in Workers, b \in BlockNumbers, in \in CommitInputs : CC_Decode(t, b, in)
    \/ \E t \in Workers : CC_Status(t)
    \/ \E t \in Workers : WR_RLock(t)
    \/ \E t \in Workers : WR_RUnlock(t)
    \/ \E t \in Workers : CC_Build(t)
    \/ \E t \in Workers : CC_NewRWSet(t)
    \/ \E t \in Workers : CC_SetState(t)
    \/ \E t \in Workers : CC_CommitTX(t)
    \/ \E t \in Workers : CC_DiscardTx(t)
    \/ \E t \in Workers : CC_UnlockApply(t)
    \/ \E t \in Workers : CC_UnlockMutex(t)
    \/ \E t \in Workers : AB_Lock(t)
    \/ \E t \in Workers : AB_Set(t)
    \/ \E t \in Workers : AB_Orderers(t)
    \/ \E t \in Workers : AB_Unlock(t)
    \/ \E t \in Workers, c \in Channels : RL_Call(t, c)
    \/ \E t \in Workers : RL_NewQueryExecutor(t)
    \/ \E t \in Workers : RL_Status(t)
    \/ \E t \in Workers : RL_GetState(t)
    \/ \E t \in Workers : RL_Build(t)
    \/ \E t \in Workers : RL_Done(t)
    \/ \E t \in Workers : RL_UnlockApply(t)
    \/ \E r \in Readers, c \in Channels : RD_RLock(r, c)
    \/ \E r \in Readers : RD_RUnlock(r)
    \/ Crash

Spec == Init /\ [][Next]_vars

\* A step of the call worker t is running, once the call has been made.
WorkerStep(t) ==
    \/ CC_ApplyLock(t)
    \/ \E b \in BlockNumbers, in \in CommitInputs : CC_Decode(t, b, in)
    \/ CC_Status(t) \/ WR_RLock(t) \/ WR_RUnlock(t) \/ CC_Build(t)
    \/ CC_NewRWSet(t) \/ CC_SetState(t)
    \/ CC_CommitTX(t) \/ CC_DiscardTx(t) \/ CC_UnlockApply(t) \/ CC_UnlockMutex(t)
    \/ AB_Lock(t) \/ AB_Set(t) \/ AB_Orderers(t) \/ AB_Unlock(t)
    \/ RL_NewQueryExecutor(t) \/ RL_Status(t) \/ RL_GetState(t) \/ RL_Build(t)
    \/ RL_Done(t) \/ RL_UnlockApply(t)

\* The scheduling the Go runtime gives: a goroutine that can run does run, the
\* vault and network calls return, a goroutine waiting in sync.Mutex.Lock is
\* handed the mutex (starvation mode) and one waiting in sync.RWMutex.Lock
\* keeps later readers out, so a lock that is free again and again is
\* acquired; a reader that took the read lock releases it.
FairSpec ==
    /\ Spec
    /\ \A t \in Workers : SF_vars(WorkerStep(t))
    /\ \A r \in Readers : WF_vars(RD_RUnlock(r))

\* ------------------------------------------------------------------ claims

\* The body of CommitConfig has finished: its result is in err and only its
\* deferred unlocks are left.
CommitReturning(t) == w[t].op = "commit" /\ w[t].pc = "cc_unlockApply"

\* The body of ReloadConfigTransactions has finished: its result is in err and
\* only its deferred calls are left.
ReloadReturning(t) == w[t].op = "reload" /\ w[t].pc = "rl_done"

Contains(log, x) == \E i \in 1..Len(log) : log[i] = x

\* C1. Idempotent commit: a CommitConfig that finds its transaction id
\* config-<embedded sequence> Valid returns success having made no vault
\* write, no activation and no endpoint push, whatever the block number.
C1_IdempotentCommit ==
    \A t \in Workers :
        (CommitReturning(t) /\ w[t].vc = Valid) =>
            /\ w[t].err = ""
            /\ w[t].txid = ConfigTxID(w[t].ctx[1].Config.Sequence)
            /\ w[t].log = <<"Status">>
            /\ resources[w[t].chan] = w[t].res0
            /\ w[t].txid \notin vaultOpen[w[t].chan]

C1_Witness ==
    \E t \in Workers :
        /\ CommitReturning(t) /\ w[t].vc = Valid
        /\ w[t].blockNumber = 2
        /\ resources[w[t].chan] # Nil

\* C2. Persist-before-activate: in every state the active bundle was built
\* from a configuration whose transaction id is Valid in the vault and whose
\* envelope is the committed entry, and CommitConfig is in applyBundle only
\* after commitConfig's CommitTX succeeded.
C2_PersistBeforeActivate ==
    /\ \A c \in Channels :
          resources[c] # Nil =>
              LET cfg == resources[c][1].config IN
              /\ Status(c, ConfigTxID(cfg.Sequence)) = Valid
              /\ GetState(c, CompositeKey(cfg.Sequence)) = Some(MarshalEnvelope(cfg))
    /\ \A t \in Workers :
          (w[t].op = "commit" /\ w[t].pc \in {"ab_lock", "ab_set", "ab_orderers", "ab_unlock"}) =>
              /\ Contains(w[t].log, "CommitTX")
              /\ w[t].err = ""

C2_Witness ==
    \E t \in Workers :
        /\ w[t].op = "commit" /\ w[t].pc = "ab_orderers"
        /\ resources[w[t].chan] = w[t].bundle
        /\ w[t].res0 # Nil

\* C3. Crash recovery: when the process crashed after a CommitConfig had
\* persisted a configuration and before it activated the bundle, the startup
\* reload that then succeeds leaves the bundle of that configuration active.
C3_CrashRecovery ==
    \A t \in Workers :
        (ReloadReturning(t) /\ w[t].boot /\ w[t].err = "" /\ crashWin[w[t].chan] # Nil) =>
            /\ resources[w[t].chan] # Nil
            /\ resources[w[t].chan][1].config = crashWin[w[t].chan][1]

\* The N of C4: sequences 1..N are Valid and N+1 is not.
LeadingValid(c) ==
    CHOOSE n \in 0..(MaxSeq + 1) :
        /\ \A k \in 1..n : Status(c, ConfigTxID(k)) = Valid
        /\ Status(c, ConfigTxID(n + 1)) # Valid

\* The configuration envelope committed at sequence k.
StoredCtx(c, k) ==
    UnmarshalConfigEnvelope(
        UnmarshalPayload(UnmarshalEnvelope(GetState(c, CompositeKey(k))[1]).env.Payload).payload.Data).ctx

\* The bundle n successive CommitConfig calls, of the configurations committed
\* at sequences 1..n, leave active on a fresh channel: each builds its bundle
\* as CommitConfig does and activates it when the build succeeds.
RECURSIVE CommitsLeave(_, _)
CommitsLeave(c, n) ==
    IF n = 0 THEN Nil
    ELSE LET prev == CommitsLeave(c, n - 1)
             b == BuildBundle(c, prev, prev, StoredCtx(c, n))
         IN  IF b.err = "" THEN b.bundle ELSE prev

StoreAccessErrors ==
    {"failed getting query executor", "failed getting tx's status",
     "failed setting configtx state in rws"}

RECURSIVE UpTo(_)
UpTo(n) == IF n = 0 THEN << >> ELSE Append(UpTo(n - 1), n)

\* C4. Sequential reconstruction: with sequences 1..N Valid and N+1 Unknown, a
\* reload on a channel with no active bundle, its store accesses succeeding,
\* returns success with the bundle N successive commits leave, having
\* processed exactly the sequences 1..N in increasing order.
C4_SequentialReconstruction ==
    \A t \in Workers :
        LET c == w[t].chan
            N == LeadingValid(c)
        IN  (/\ ReloadReturning(t) /\ w[t].res0 = Nil
             /\ Status(c, ConfigTxID(N + 1)) = Unknown
             /\ w[t].err \notin StoreAccessErrors) =>
                /\ w[t].err = ""
                /\ resources[c] = CommitsLeave(c, N)
                /\ w[t].loaded = UpTo(N)

\* C5. Contiguous sequences: in every state the sequences whose transaction id
\* is Valid are exactly 1..N for some N >= 0.
C5_ContiguousSequences ==
    \A c \in Channels :
        \E N \in 0..(MaxSeq + 1) :
            {s \in 0..(MaxSeq + 1) : Status(c, ConfigTxID(s)) = Valid} = 1..N

BuildErrors ==
    {"failed to validate config transaction", "failed to build a new bundle",
     "failed to create next bundle", "no application config",
     "application capabilities incompatible", "channel capabilities incompatible"}

\* C6. No activation on validation failure: a CommitConfig that returns the
\* validator's, the builder's or the capability check's error has activated
\* nothing, the active bundle is the object it was when the call took the
\* apply lock, and the vault has no entry and no Valid status for its
\* transaction id.
C6_NoActivationOnValidationFailure ==
    \A t \in Workers :
        (CommitReturning(t) /\ w[t].err \in BuildErrors) =>
            /\ resources[w[t].chan] = w[t].res0
            /\ ~Contains(w[t].log, "applyBundle")
            /\ ~Contains(w[t].log, "setConfigOrderers")
            /\ Status(w[t].chan, w[t].txid) # Valid
            /\ GetState(w[t].chan, CompositeKey(w[t].ctx[1].Config.Sequence)) = Nil

C6_Witness ==
    \E t \in Workers :
        /\ CommitReturning(t)
        /\ w[t].err = "application capabilities incompatible"
        /\ resources[w[t].chan] # Nil

\* C7. Rollback on persistence failure: a CommitConfig whose CommitTX failed
\* has called DiscardTx before it returns, returns the CommitTX error whether
\* or not DiscardTx failed, has activated nothing, and leaves the vault with
\* no written entry for its transaction id, neither committed nor pending in
\* an open write set, and with no Valid status for it.
C7_RollbackOnPersistenceFailure ==
    \A t \in Workers :
        (CommitReturning(t) /\ Contains(w[t].log, "CommitTX failed")) =>
            /\ Contains(w[t].log, "DiscardTx") \/ Contains(w[t].log, "DiscardTx failed")
            /\ w[t].err = "failed committing configtx rws"
            /\ ~Contains(w[t].log, "applyBundle")
            /\ resources[w[t].chan] = w[t].res0
            /\ Status(w[t].chan, w[t].txid) # Valid
            /\ GetState(w[t].chan, CompositeKey(w[t].ctx[1].Config.Sequence)) = Nil
            /\ w[t].txid \notin vaultOpen[w[t].chan]

\* The positions of a call that is reading the active bundle for its build:
\* about to call Resources(), or inside it.
ReadingResources == FirstCall \cup SecondCall \cup InFirstCall \cup InSecondCall

\* The call of worker t is between its first read of the channel's state and
\* the release of the apply lock.
InSequence(t, c) ==
    /\ w[t].chan = c
    /\ w[t].pc \in {"cc_decode", "cc_status", "cc_build", "cc_newrws", "cc_setstate",
                    "cc_committx", "cc_discard", "cc_unlockApply",
                    "ab_lock", "ab_set", "ab_orderers", "ab_unlock",
                    "rl_newqe", "rl_status", "rl_getstate", "rl_build", "rl_done",
                    "rl_unlockApply"} \cup ReadingResources

\* C8. Mutual exclusion on a channel: at most one ReloadConfigTransactions or
\* CommitConfig call is between its status query and its bundle activation,
\* and that call holds the apply lock.
C8_MutualExclusion ==
    \A c \in Channels :
        /\ Cardinality({t \in Workers : InSequence(t, c)}) <= 1
        /\ \A t \in Workers : InSequence(t, c) => applyLock[c] = t

C8_Witness ==
    \E t, u \in Workers :
        /\ w[t].op = "reload" /\ w[t].pc = "rl_getstate" /\ applyLock[w[t].chan] = t
        /\ w[u].op = "commit" /\ w[u].pc = "cc_applyLock" /\ w[u].chan = w[t].chan

\* C9. Atomic swap for readers: a Resources() call returns nil, and then no
\* bundle has been passed to applyBundle, or a fully built bundle that was
\* passed to applyBundle; a reader never gets nil or an earlier bundle after a
\* later one.
C9_AtomicSwapForReaders ==
    \A r \in Readers :
        rd[r].pc = "reading" =>
            LET got == rd[r].got
                seen == rd[r].seen
            IN  /\ got = Nil => applied[rd[r].chan] = {}
                /\ got # Nil => (got \in applied[rd[r].chan] /\ got[1].built)
                /\ seen # Nil => (got # Nil /\ got[1].gen >= seen[1].gen)

C9_Witness ==
    \E r \in Readers :
        /\ rd[r].pc = "reading"
        /\ rd[r].seen # Nil /\ rd[r].got # Nil
        /\ rd[r].got[1].gen > rd[r].seen[1].gen

\* C10. Endpoint propagation outside all three locks: a worker that is about
\* to push the orderer list to the network layer holds none of
\* commitConfigMutex, the channel's apply lock and the channel's resources lock.
C10_PushOutsideLocks ==
    \A t \in Workers :
        (w[t].pc = "ab_orderers" /\ OrderersToPush(resources[w[t].chan][1]) # Nil) =>
            /\ commitConfigMutex # t
            /\ applyLock[w[t].chan] # t
            /\ lock[w[t].chan].writer # t

\* C11. Construction lock scope: a CommitConfig that is in its status query,
\* its vault persistence or its bundle activation does not hold
\* commitConfigMutex; the mutex is held only around the bundle builder.
C11_ConstructionLockScope ==
    \A t \in Workers :
        (w[t].op = "commit" /\ w[t].pc \in {"cc_status", "cc_newrws", "cc_setstate",
            "cc_committx", "cc_discard", "ab_lock", "ab_set", "ab_orderers", "ab_unlock"}) =>
            commitConfigMutex # t

\* The position of the last status query in a call's log, 0 when there is none.
LastStatusAt(log) ==
    IF \E i \in 1..Len(log) : log[i] = "Status"
    THEN CHOOSE i \in 1..Len(log) :
            log[i] = "Status" /\ \A j \in (i + 1)..Len(log) : log[j] # "Status"
    ELSE 0

\* What a call did for the transaction it is processing: its log after the
\* last status query.
StepCalls(log) == SubSeq(log, LastStatusAt(log) + 1, Len(log))

Precedes(log, a, b) ==
    \E i, j \in 1..Len(log) : i < j /\ log[i] = a /\ log[j] = b

\* The call of worker t has run the build for its transaction and the active
\* bundle is still the one the build saw.
BuiltNotActivated(t) ==
    \/ w[t].pc \in {"cc_newrws", "cc_setstate", "cc_committx", "cc_discard", "ab_lock"}
    \/ (CommitReturning(t) \/ ReloadReturning(t)) /\ w[t].err \in BuildErrors

\* C12. Genesis versus successor branching: a CommitConfig or reload step that
\* found no active bundle built its bundle without calling a validator; one
\* that found an active bundle called Validate of that bundle's validator
\* before the builder, and it is about to activate a bundle only if that
\* validation succeeded.
C12_GenesisVersusSuccessor ==
    \A t \in Workers :
        BuiltNotActivated(t) =>
            LET pred == resources[w[t].chan]
                calls == StepCalls(w[t].log)
            IN  /\ pred = Nil =>
                      /\ ~Contains(calls, "Validate")
                      /\ Contains(calls, "NewBundle")
                /\ pred # Nil =>
                      /\ Contains(calls, "Validate")
                      /\ Contains(calls, "NewBundle") =>
                            /\ Precedes(calls, "Validate", "NewBundle")
                            /\ Validate(ConfigtxValidator(pred[1]), w[t].ctx[1])
                      /\ w[t].pc = "ab_lock" =>
                            /\ Validate(ConfigtxValidator(pred[1]), w[t].ctx[1])
                            /\ w[t].bundle # Nil
                            /\ w[t].bundle[1].config = w[t].ctx[1].Config

C12_Witness ==
    \E t \in Workers :
        /\ w[t].op = "commit" /\ w[t].pc = "ab_lock"
        /\ resources[w[t].chan] # Nil
        /\ w[t].bundle[1].config.Sequence = 2

\* What applyBundle has done in the activation a call is in: the call's log
\* after its last entry into applyBundle.
ActivationCalls(log) ==
    LET at == CHOOSE i \in 1..Len(log) :
                 log[i] = "applyBundle" /\ \A j \in (i + 1)..Len(log) : log[j] # "applyBundle"
    IN  SubSeq(log, at + 1, Len(log))

Count(log, x) == Cardinality({i \in 1..Len(log) : log[i] = x})

\* The (organization, endpoint) pairs of an ordering configuration.
EndpointPairs(orgs) ==
    UNION {{<<i, j>> : j \in 1..Len(orgs[i].endpoints)} : i \in 1..Len(orgs)}

\* C13. Endpoint propagation result: when applyBundle is about to return, a
\* bundle with ordering configuration and at least one endpoint has made one
\* push, the network layer's list is exactly one descriptor per
\* (organization, endpoint) with TLS enabled and the organization's root then
\* intermediate certificates; any other bundle has made no push and the list
\* is the one from before the activation.
C13_EndpointPropagationResult ==
    \A t \in Workers :
        w[t].pc = "ab_unlock" =>
            LET cfg == w[t].bundle[1].config
                pairs == EndpointPairs(cfg.orgs)
                pushes == Count(ActivationCalls(w[t].log), "setConfigOrderers")
            IN  IF cfg.hasOrderer /\ pairs # {}
                THEN /\ pushes = 1
                     /\ Len(configOrderers) = Cardinality(pairs)
                     /\ \A p \in pairs :
                           LET org == cfg.orgs[p[1]]
                               ks == {k \in 1..Len(configOrderers) :
                                        configOrderers[k].Address = org.endpoints[p[2]]}
                           IN  /\ Cardinality(ks) = 1
                               /\ \A k \in ks :
                                     /\ configOrderers[k].TLSEnabled
                                     /\ configOrderers[k].TLSRootCertBytes
                                            = org.tlsRoot \o org.tlsIntermediate
                ELSE /\ pushes = 0
                     /\ configOrderers = w[t].ord0

C13_Witness ==
    \E t \in Workers :
        /\ w[t].pc = "ab_unlock"
        /\ Len(w[t].bundle[1].config.orgs) = 1
        /\ Len(w[t].bundle[1].config.orgs[1].endpoints) = 2
        /\ Len(configOrderers) = 2
        /\ configOrderers # w[t].ord0

VaultWriteCalls ==
    {"NewRWSet", "SetState", "SetState failed", "CommitTX", "CommitTX failed",
     "DiscardTx", "DiscardTx failed"}

\* C14. Unexpected status is fatal: a CommitConfig or ReloadConfigTransactions
\* whose status query gave a status other than Valid and Unknown returns the
\* status error having done nothing for that transaction after the query: no
\* build, no activation, no vault write; the reload has applied the
\* sequences before it and no later one.
C14_UnexpectedStatusFatal ==
    \A t \in Workers :
        /\ (CommitReturning(t) /\ w[t].vc \notin {Valid, Unknown, ""}) =>
              /\ w[t].err = "invalid configtx's status"
              /\ w[t].log = <<"Status">>
              /\ resources[w[t].chan] = w[t].res0
              /\ configOrderers = w[t].ord0
              /\ w[t].txid \notin vaultOpen[w[t].chan]
        /\ (ReloadReturning(t) /\ w[t].vc \notin {Valid, Unknown, ""}) =>
              /\ w[t].err = "invalid configtx's status"
              /\ w[t].txid = ConfigTxID(w[t].sequence)
              /\ StepCalls(w[t].log) = << >>
              /\ w[t].loaded = UpTo(w[t].sequence - 1)
              /\ \A i \in 1..Len(w[t].log) : w[t].log[i] \notin VaultWriteCalls

C14_Witness ==
    \E t \in Workers :
        /\ CommitReturning(t)
        /\ w[t].vc = Invalid
        /\ w[t].res0 # Nil

\* A reload whose last status query gave Unknown returns success, having read
\* and applied exactly the sequences before that one and nothing at or after
\* it; at sequence 1 the active bundle is the one from before the call.
C15_StopsAtFirstUnknown ==
    \A t \in Workers :
        (ReloadReturning(t) /\ w[t].vc = Unknown) =>
            /\ w[t].err = ""
            /\ Status(w[t].chan, ConfigTxID(w[t].sequence)) = Unknown
            /\ \A k \in 1..(w[t].sequence - 1) : Status(w[t].chan, ConfigTxID(k)) = Valid
            /\ w[t].loaded = UpTo(w[t].sequence - 1)
            /\ Count(w[t].log, "GetState") = w[t].sequence - 1
            /\ StepCalls(w[t].log) = << >>
            /\ w[t].sequence = 1 =>
                  /\ resources[w[t].chan] = w[t].res0
                  /\ w[t].boot => resources[w[t].chan] = Nil

\* C15. Reload termination: every ReloadConfigTransactions call returns, and
\* one that meets an Unknown status stops there and returns success without
\* reading or applying that or any higher sequence, Valid or not; when
\* config-1 is Unknown the active bundle stays as it was (nil at startup).
C15_ReloadTermination ==
    /\ []C15_StopsAtFirstUnknown
    /\ \A t \in Workers : (w[t].op = "reload") ~> (w[t].op # "reload")

C15_Witness ==
    \E t \in Workers :
        /\ ReloadReturning(t) /\ w[t].vc = Unknown
        /\ w[t].sequence = 1 /\ w[t].boot
        /\ Status(w[t].chan, ConfigTxID(2)) = Valid

\* The call of worker t is querying a status, decoding, validating, building
\* or persisting.
BeforeActivation(t) ==
    w[t].pc \in {"cc_decode", "cc_status", "cc_build", "cc_newrws", "cc_setstate",
                 "cc_committx", "cc_discard",
                 "rl_newqe", "rl_status", "rl_getstate", "rl_build"} \cup ReadingResources

\* C16. Readers are not blocked by validation or persistence: while a
\* CommitConfig or ReloadConfigTransactions is querying status, validating,
\* building or persisting, c.lock has no writer, a Resources() call of any
\* idle reader can take the read lock, and what it reads is the current
\* bundle.
C16_ReadersNotBlocked ==
    \A t \in Workers :
        BeforeActivation(t) =>
            /\ lock[w[t].chan].writer = ""
            /\ ReadOutcomes(w[t].chan) = {resources[w[t].chan]}
            /\ \A r \in Readers : rd[r].pc = "idle" => ENABLED RD_RLock(r, w[t].chan)
            /\ \A r \in Readers :
                  (rd[r].pc = "reading" /\ rd[r].chan = w[t].chan) =>
                      rd[r].got = resources[w[t].chan]

C16_Witness ==
    \E t \in Workers, r \in Readers :
        /\ w[t].op = "commit" /\ w[t].pc = "cc_committx"
        /\ rd[r].pc = "reading" /\ rd[r].chan = w[t].chan
        /\ rd[r].got = w[t].res0 /\ rd[r].got # Nil

EarlyErrors ==
    {"channel config found nil", "cannot get payload", "error unmarshalling config",
     "failed getting tx's status"}

\* C17. Early rejection leaves state unchanged: a CommitConfig that returns an
\* error for a nil envelope, a decode failure or a failed status query leaves
\* the vault, the active bundle and the network layer's orderer list as they
\* were when it took the apply lock, and has released the apply lock and then
\* commitConfigMutex when it has returned.
C17_EarlyRejectionFrame ==
    \A t \in Workers :
        /\ (CommitReturning(t) /\ w[t].err \in EarlyErrors) =>
              /\ VaultOf(w[t].chan) = w[t].vault0[1]
              /\ resources[w[t].chan] = w[t].res0
              /\ configOrderers = w[t].ord0
              /\ \A i \in 1..Len(w[t].log) : w[t].log[i] = "Status"
        /\ (w[t].pc = "cc_unlockMutex" /\ w[t].err \in EarlyErrors) =>
              applyLock[w[t].chan] # t
        /\ w[t].pc = "idle" =>
              /\ commitConfigMutex # t
              /\ \A c \in Channels : applyLock[c] # t

C17_Witness ==
    \E t \in Workers :
        /\ CommitReturning(t)
        /\ w[t].err = "error unmarshalling config"
        /\ w[t].res0 # Nil
        /\ configOrderers # << >>

\* C18. Query handle release: a ReloadConfigTransactions call opens at most
\* one query executor, keeps it open while its body runs, and has called Done
\* on it exactly once when only the release of the apply lock is left,
\* whatever the result of the call.
C18_QueryHandleRelease ==
    \A t \in Workers :
        w[t].op = "reload" =>
            LET opened == Count(w[t].log, "NewQueryExecutor")
                done == Count(w[t].log, "qe.Done")
            IN  /\ opened <= 1
                /\ w[t].pc = "rl_unlockApply" => (done = opened /\ ~w[t].qe)
                /\ w[t].pc # "rl_unlockApply" => (done = 0 /\ (w[t].qe <=> opened = 1))

C18_Witness ==
    \E t \in Workers :
        /\ w[t].op = "reload" /\ w[t].pc = "rl_unlockApply"
        /\ w[t].err # "" /\ w[t].loaded # << >>
        /\ Count(w[t].log, "qe.Done") = 1

\* Every lock is taken in the order commitConfigMutex, c.applyLock, c.lock: a
\* thread about to take one holds none that comes later.
LockOrder ==
    \A t \in Workers :
        /\ \A c \in Channels : lock[c].writer = t => applyLock[c] = t
        /\ (w[t].op = "commit" /\ applyLock[w[t].chan] = t) => commitConfigMutex = t
        /\ w[t].pc \in {"idle", "cc_applyLock"} =>
              \A c \in Channels : applyLock[c] # t /\ lock[c].writer # t
        /\ w[t].pc \in {"ab_lock"} \cup FirstCall \cup SecondCall =>
              \A c \in Channels : lock[c].writer # t /\ t \notin lock[c].readers
        /\ \A c \in Channels : t \in lock[c].readers =>
              (applyLock[c] = t /\ w[t].pc \in InFirstCall \cup InSecondCall)

\* Some thread that is inside a call can take a step.
NoDeadlock ==
    (\E t \in Workers : w[t].pc # "idle") =>
        \/ \E t \in Workers : w[t].pc # "idle" /\ ENABLED WorkerStep(t)
        \/ \E r \in Readers : rd[r].pc = "reading" /\ ENABLED RD_RUnlock(r)

\* A worker waits for a lock another thread holds.
Waiting(t) ==
    \/ w[t].pc = "cc_applyLock" /\ ~ApplyLockFree(w[t].chan)
    \/ w[t].pc = "ab_lock" /\ ~CanLock(w[t].chan)
    \/ w[t].pc \in FirstCall \cup SecondCall /\ ~CanRLock(w[t].chan)

C19_OrderedAndUnblocked == LockOrder /\ NoDeadlock

\* C19. Deadlock freedom by lock order: the locks are taken in the order
\* commitConfigMutex, apply lock, resources lock; in no state are all threads
\* that are inside a call blocked; and every call returns.
C19_DeadlockFreedom ==
    /\ []C19_OrderedAndUnblocked
    /\ \A t \in Workers : (w[t].pc # "idle") ~> (w[t].pc = "idle")

C19_Witness ==
    \E t, u \in Workers, r \in Readers :
        /\ w[t].op = "commit" /\ Waiting(t) /\ commitConfigMutex = t
        /\ w[u].op = "reload" /\ applyLock[w[t].chan] = u
        /\ rd[r].pc = "reading" /\ rd[r].chan = w[t].chan

\* C20. Reload is not all-or-nothing: a ReloadConfigTransactions that returns
\* an error raised at sequence k > 1 has applied the sequences 1..k-1; the
\* active bundle is the one built from the entry of sequence k-1, not the one
\* from before the call, and the orderer list is the one the activations up to
\* k-1 left.
C20_ReloadNotAllOrNothing ==
    \A t \in Workers :
        (w[t].op = "reload" /\ w[t].pc = "rl_unlockApply" /\ w[t].err # ""
            /\ w[t].sequence > 1) =>
            LET c == w[t].chan
                k == w[t].sequence
            IN  /\ w[t].loaded = UpTo(k - 1)
                /\ resources[c] # Nil
                /\ resources[c] # w[t].res0
                /\ resources[c] \in applied[c]
                /\ resources[c][1].config = StoredCtx(c, k - 1).Config
                /\ LET cfg == resources[c][1].config IN
                      IF cfg.hasOrderer /\ EndpointPairs(cfg.orgs) # {}
                      THEN configOrderers = NewOrderers(cfg.orgs, 1)
                      ELSE configOrderers = w[t].ord0

C20_Witness ==
    \E t \in Workers :
        /\ w[t].op = "reload" /\ w[t].pc = "rl_unlockApply"
        /\ w[t].err \in BuildErrors
        /\ w[t].sequence = 2
        /\ w[t].res0 = Nil /\ resources[w[t].chan] # Nil
        /\ configOrderers # << >>

====
